---- MODULE Spec2Model ----
(***************************************************************************)
(* generate_comunity.py: modify_excel_file and the module's driver loop.   *)
(*                                                                         *)
(* A workbook sheet is a sequence of rows, a row a sequence of cells, a    *)
(* cell a (value, number_format) pair.  Numbers are fixed point: a value's *)
(* field n counts units of 1/10000 (so 3.6 kW is 36000 and the integer 1   *)
(* is 10000); the noise factor counts hundredths (1.0 is 100), so a        *)
(* product base * factor counts units of 1e-6.  Text is a sequence of      *)
(* tokens, the token " " being white space.                                *)
(***************************************************************************)
EXTENDS Integers, Sequences, FiniteSets, TLC

VARIABLES
    fs,           \* the files on disk: file name -> sheet, or NoFile
    todo,         \* the calls of modify_excel_file still to be made
    pc,           \* position: "start", "resolve", "sample", "rows", "returned", "raised"
    args,         \* the running call's arguments
    ws,           \* wb.active of the running call
    date_col,     \* header_map.get("Date and time"), 0 for None
    power_col,    \* header_map.get("Active power (kW)"), 0 for None
    month_col,    \* header_map.get("month"), 0 for None
    unique_days,  \* the set unique_days
    ev_days,      \* the list ev_days
    r,            \* the row the transform loop is at
    hist          \* what the running call has done so far, in order

vars == <<fs, todo, pc, args, ws, date_col, power_col, month_col,
          unique_days, ev_days, r, hist>>

----------------------------------------------------------------------------
(* Bounds and program constants *)

MaxRows == 3

DefaultVariationPercent == 10
DefaultEvProfileKw == 36 * 1000
DefaultEvStart == 18
DefaultEvEnd == 22
HeaderRow == 2
FirstDataRow == 3
RangeStart == 1
RangeStop == 5

Unit == 10 * 1000
FactorOne == 10 * 10

----------------------------------------------------------------------------
(* Cell values, as openpyxl hands them to the code *)

Value(k, n, s, d, h) == [k |-> k, n |-> n, s |-> s, d |-> d, h |-> h]

PyNone == Value("none", 0, <<>>, <<>>, 0)
PyStr(s) == Value("str", 0, s, <<>>, 0)
PyInt(i) == Value("int", i * Unit, <<>>, <<>>, 0)
PyFloat(n) == Value("float", n, <<>>, <<>>, 0)
PyBool(b) == Value("bool", IF b THEN Unit ELSE 0, <<>>, <<>>, 0)
PyDateTime(d, h) == Value("datetime", 0, <<>>, d, h)

Cell(v, fmt) == [v |-> v, fmt |-> fmt]

\* The classes a value is an instance of (bool is a subclass of int).
ClassesOf(v) ==
    CASE v.k = "bool" -> {"bool", "int"}
      [] v.k = "int" -> {"int"}
      [] v.k = "float" -> {"float"}
      [] v.k = "datetime" -> {"datetime", "date"}
      [] v.k = "str" -> {"str"}
      [] OTHER -> {"NoneType"}

isinstance(v, classes) == ClassesOf(v) \cap classes # {}

\* A formula cell is read as the text of the formula, which starts with "=".
IsFormula(v) == v.k = "str" /\ Len(v.s) > 0 /\ Head(v.s) = "="

----------------------------------------------------------------------------
(* Header resolution *)

DATE_HEADER == <<"Date", " ", "and", " ", "time">>
POWER_HEADER == <<"Active", " ", "power", " ", "(kW)">>
MONTH_HEADER == <<"month">>

\* str(cell.value)
str(v) ==
    CASE v.k = "str" -> v.s
      [] v.k = "none" -> <<"None">>
      [] OTHER -> <<ToString(v.n)>>

RECURSIVE lstrip(_)
lstrip(s) == IF s # <<>> /\ Head(s) = " " THEN lstrip(Tail(s)) ELSE s

RECURSIVE rstrip(_)
rstrip(s) ==
    IF s # <<>> /\ s[Len(s)] = " " THEN rstrip(SubSeq(s, 1, Len(s) - 1)) ELSE s

strip(s) == rstrip(lstrip(s))

MaxOf(S) == CHOOSE x \in S : \A y \in S : y <= x

\* { str(cell.value).strip(): idx for idx, cell in enumerate(ws[2], start=1) }:
\* a later column with the same text replaces an earlier one.
header_map(row) ==
    LET key(i) == strip(str(row[i].v))
    IN  [name \in {key(i) : i \in 1..Len(row)} |->
            MaxOf({i \in 1..Len(row) : key(i) = name})]

\* dict.get: the column, or 0 for None
get(m, name) == IF name \in DOMAIN m THEN m[name] ELSE 0

HeaderMissingMut(dc, pco, mc) == dc = 0 /\ pco = 0 /\ mc = 0

HeaderMissing(dc, pco, mc) == dc = 0 \/ pco = 0 \/ mc = 0

----------------------------------------------------------------------------
(* Rows *)

\* row[i] with Python's indexing (i counts from 0, a negative i from the end)
PyIndex(row, i) == IF i < 0 THEN Len(row) + i + 1 ELSE i + 1

DataRows(sheet) == FirstDataRow..Len(sheet)

\* unique_days after the loop over the date column
CollectDays(sheet, dc) ==
    {sheet[i][PyIndex(sheet[i], dc - 1)].v.d :
        i \in {j \in DataRows(sheet) :
                 isinstance(sheet[j][PyIndex(sheet[j], dc - 1)].v, {"datetime"})}}

SampleSizeMut(n) == (n + 1) \div 2

\* int(len(unique_days) * 0.5)
SampleSize(n) == (n * 5) \div 10

\* random.sample(population, k): every list of k distinct members
Samples(population, k) ==
    {s \in [1..k -> population] : \A i, j \in 1..k : i # j => s[i] # s[j]}

UniformDrawsMut(v) == {-100 * v, v \div 3, 100 * v}

\* random.uniform(-v/100, v/100) in hundredths: the two ends and a point inside
UniformDraws(v) == {-v, v \div 3, v}

\* round(x, 3), x in units of 1e-6, the result in units of 1e-4.  A decimal tie
\* is decided by the binary value of the float, which may lie on either side.
Round3(x) ==
    LET q == x \div 1000
        rem == x - q * 1000
    IN  IF 2 * rem < 1000 THEN {10 * q}
        ELSE IF 2 * rem > 1000 THEN {10 * (q + 1)}
        ELSE {10 * q, 10 * (q + 1)}

InWindowMut(hour, ev_hours) == ev_hours[1] <= hour /\ hour <= ev_hours[2]

\* ev_hours[0] <= row_hour < ev_hours[1]
InWindow(hour, ev_hours) == ev_hours[1] <= hour /\ hour < ev_hours[2]

InList(x, list) == \E i \in 1..Len(list) : list[i] = x

\* row_date in ev_days and the hour in the window
EvApplies(v, days, ev_hours) == InList(v.d, days) /\ InWindow(v.h, ev_hours)

\* base_power * factor, plus the EV load when it applies (units of 1e-6)
NewPower(base, u, ev, kw) ==
    base * (FactorOne + u) + (IF ev THEN kw * 100 ELSE 0)

MonthOfMut(d) == d[3]

\* row_date.month
MonthOf(d) == d[2]

WritePowerMut(row, pidx, n) ==
    [row EXCEPT ![IF pidx > 1 THEN pidx - 1 ELSE Len(row)] =
                    Cell(PyFloat(n), row[pidx].fmt)]

\* power_cell.value = ...; power_cell.number_format = saved_num_fmt
WritePower(row, pidx, n) ==
    [row EXCEPT ![pidx] = Cell(PyFloat(n), row[pidx].fmt)]

WriteMonthMut(row, midx, m) == row

\* mon_cell.value = row_date.month; mon_cell.number_format = saved_mon_fmt
WriteMonth(row, midx, m) ==
    [row EXCEPT ![midx] = Cell(PyInt(m), row[midx].fmt)]

AfterSkipMut(row, last) == last + 1

\* continue: on to the next row
AfterSkip(row, last) == row + 1

----------------------------------------------------------------------------
(* The files *)

NoFile == <<>>

SOURCE == "load profile.xlsx"

TargetMut(i) == SOURCE

\* f"load_profile_{i}.xlsx"
Target(i) == "load_profile_" \o ToString(i) \o ".xlsx"

FileNames == {SOURCE} \cup {Target(i) : i \in RangeStart..(RangeStop - 1)}

CallArgs(input, output, v, kw, hours) ==
    [input_path |-> input, output_path |-> output, variation_percent |-> v,
     ev_profile_kw |-> kw, ev_hours |-> hours]

DefaultCall(input, output) ==
    CallArgs(input, output, DefaultVariationPercent, DefaultEvProfileKw,
             <<DefaultEvStart, DefaultEvEnd>>)

NoArgs == CallArgs("", "", 0, 0, <<0, 0>>)

\* for i in range(1, 5): modify_excel_file(SOURCE, f"load_profile_{i}.xlsx")
DriverCalls ==
    [i \in 1..(RangeStop - RangeStart) |->
        DefaultCall(SOURCE, Target(RangeStart + i - 1))]

----------------------------------------------------------------------------
(* The source sheets the model runs on *)

D1 == <<2024, 1, 10>>
D2 == <<2024, 1, 11>>
D3 == <<2024, 2, 1>>

MonthFormula == Cell(PyStr(<<"=", "MONTH(A)">>), "General")
Stamp(d, h) == Cell(PyDateTime(d, h), "yyyy-mm-dd h:mm")
Note == Cell(PyStr(<<"meter", " ", "7">>), "General")

\* data rows, each as <<date cell, power cell, month cell, other cell>>
RowEvStart == <<Stamp(D1, 18), Cell(PyFloat(20000), "0.000"), MonthFormula, Note>>
RowMorning == <<Stamp(D1, 9), Cell(PyFloat(14), "0.000"), MonthFormula, Note>>
RowEvEnd == <<Stamp(D2, 22), Cell(PyInt(3), "General"), Cell(PyInt(7), "0"), Note>>
RowExport == <<Stamp(D3, 21), Cell(PyFloat(-20006), "0.000"), MonthFormula, Note>>
RowBlank ==
    <<Cell(PyNone, "General"), Cell(PyNone, "General"), MonthFormula,
      Cell(PyNone, "General")>>
RowTextPower == <<Stamp(D2, 19), Cell(PyStr(<<"n/a">>), "0.000"), MonthFormula, Note>>
RowBoolPower == <<Stamp(D3, 18), Cell(PyBool(TRUE), "General"), MonthFormula, Note>>

RowTemplates ==
    {RowEvStart, RowMorning, RowEvEnd, RowExport, RowBlank, RowTextPower, RowBoolPower}

\* the rows the runs under fairness and the driver's runs are followed on
FewRowTemplates == {RowEvStart, RowEvEnd, RowBlank, RowTextPower}

HeaderCell(s) == Cell(PyStr(s), "General")

\* header rows, each with the columns its data rows use for
\* <<date, power, month, other>>
Layouts ==
    { [header |-> <<HeaderCell(DATE_HEADER), HeaderCell(POWER_HEADER),
                    HeaderCell(MONTH_HEADER), HeaderCell(<<"note">>)>>,
       cols |-> <<1, 2, 3, 4>>],
      [header |-> <<HeaderCell(MONTH_HEADER),
                    HeaderCell(<<" ", " ", "Active", " ", "power", " ", "(kW)">>),
                    HeaderCell(<<" ", "month", " ">>),
                    HeaderCell(<<"Date", " ", "and", " ", "time", " ">>)>>,
       cols |-> <<4, 2, 3, 1>>],
      [header |-> <<HeaderCell(DATE_HEADER), HeaderCell(POWER_HEADER),
                    HeaderCell(<<"Month">>), HeaderCell(<<"note">>)>>,
       cols |-> <<1, 2, 3, 4>>],
      [header |-> <<HeaderCell(<<"Date", " ", "and", " ", " ", "time">>),
                    HeaderCell(POWER_HEADER), HeaderCell(MONTH_HEADER),
                    Cell(PyNone, "General")>>,
       cols |-> <<1, 2, 3, 4>>] }

CaptionRow ==
    <<Cell(PyStr(<<"Load", " ", "profile">>), "Title"), Cell(PyNone, "General"),
      Cell(PyNone, "General"), Cell(PyNone, "General")>>

\* the template's cells put in the layout's columns
Place(t, cols) ==
    [c \in 1..4 |-> t[CHOOSE f \in 1..4 : cols[f] = c]]

Sheet(layout, rows) ==
    <<CaptionRow, layout.header>> \o
        [i \in 1..Len(rows) |-> Place(rows[i], layout.cols)]

RowSeqs(templates, n) == UNION {[1..k -> templates] : k \in 0..n}

Sheets == {Sheet(l, rows) : l \in Layouts, rows \in RowSeqs(RowTemplates, MaxRows)}

FewSheets == {Sheet(l, rows) : l \in Layouts, rows \in RowSeqs(FewRowTemplates, MaxRows)}

\* the sheets the four runs of the driver are followed on
DriverSheets ==
    {Sheet(l, rows) : l \in Layouts,
                      rows \in {<<>>, <<RowEvStart, RowEvEnd>>, <<RowExport, RowBlank>>}}

\* the arguments a single call is followed with
Configs ==
    { [v |-> DefaultVariationPercent, kw |-> DefaultEvProfileKw,
       hours |-> <<DefaultEvStart, DefaultEvEnd>>],
      [v |-> 0, kw |-> DefaultEvProfileKw, hours |-> <<DefaultEvStart, DefaultEvEnd>>] }

----------------------------------------------------------------------------
(* State machine *)

Event(op, row, skipped, u, ev) ==
    [op |-> op, row |-> row, skipped |-> skipped, u |-> u, ev |-> ev]

InitLocals ==
    /\ pc = "start"
    /\ args = NoArgs
    /\ ws = <<>>
    /\ date_col = 0
    /\ power_col = 0
    /\ month_col = 0
    /\ unique_days = {}
    /\ ev_days = <<>>
    /\ r = 0
    /\ hist = <<>>

\* one call of modify_excel_file on a source sheet
Init ==
    /\ \E s \in Sheets :
          fs = [f \in FileNames |-> IF f = SOURCE THEN s ELSE NoFile]
    /\ \E c \in Configs :
          todo = <<CallArgs(SOURCE, Target(RangeStart), c.v, c.kw, c.hours)>>
    /\ InitLocals

\* one call, on the smaller family of sheets
FewInit ==
    /\ \E s \in FewSheets :
          fs = [f \in FileNames |-> IF f = SOURCE THEN s ELSE NoFile]
    /\ \E c \in Configs :
          todo = <<CallArgs(SOURCE, Target(RangeStart), c.v, c.kw, c.hours)>>
    /\ InitLocals

\* the module's driver loop
DriverInit ==
    /\ \E s \in DriverSheets :
          fs = [f \in FileNames |-> IF f = SOURCE THEN s ELSE NoFile]
    /\ todo = DriverCalls
    /\ InitLocals

\* wb = load_workbook(input_path); ws = wb.active
Load ==
    /\ pc \in {"start", "returned"}
    /\ todo # <<>>
    /\ args' = Head(todo)
    /\ todo' = Tail(todo)
    /\ ws' = fs[Head(todo).input_path]
    /\ date_col' = 0
    /\ power_col' = 0
    /\ month_col' = 0
    /\ unique_days' = {}
    /\ ev_days' = <<>>
    /\ r' = 0
    /\ hist' = <<Event("load", 0, FALSE, 0, FALSE)>>
    /\ pc' = "resolve"
    /\ UNCHANGED fs

\* header_map, the three columns, and the ValueError
ResolveHeaders ==
    /\ pc = "resolve"
    /\ LET m == header_map(ws[HeaderRow])
           dc == get(m, DATE_HEADER)
           pco == get(m, POWER_HEADER)
           mc == get(m, MONTH_HEADER)
       IN  /\ date_col' = dc
           /\ power_col' = pco
           /\ month_col' = mc
           /\ IF HeaderMissing(dc, pco, mc)
                 THEN /\ pc' = "raised"
                      /\ hist' = Append(hist, Event("raise", 0, FALSE, 0, FALSE))
                 ELSE /\ pc' = "sample"
                      /\ hist' = Append(hist, Event("resolve", 0, FALSE, 0, FALSE))
    /\ UNCHANGED <<fs, todo, args, ws, unique_days, ev_days, r>>

\* unique_days, then ev_days = random.sample(sorted(unique_days), k=...)
SampleEvDays ==
    /\ pc = "sample"
    /\ LET days == CollectDays(ws, date_col)
       IN  /\ unique_days' = days
           /\ ev_days' \in Samples(days, SampleSize(Cardinality(days)))
    /\ r' = FirstDataRow
    /\ hist' = Append(hist, Event("sample", 0, FALSE, 0, FALSE))
    /\ pc' = "rows"
    /\ UNCHANGED <<fs, todo, args, ws, date_col, power_col, month_col>>

\* one pass of: for row in ws.iter_rows(min_row=3)
TransformRow ==
    /\ pc = "rows"
    /\ r <= Len(ws)
    /\ LET row == ws[r]
           didx == PyIndex(row, date_col - 1)
           pidx == PyIndex(row, power_col - 1)
           midx == PyIndex(row, month_col - 1)
           date_v == row[didx].v
           power_v == row[pidx].v
       IN  IF \/ ~isinstance(date_v, {"datetime"})
              \/ ~isinstance(power_v, {"int", "float"})
              THEN /\ ws' = ws
                   /\ r' = AfterSkip(r, Len(ws))
                   /\ hist' = Append(hist, Event("row", r, TRUE, 0, FALSE))
              ELSE \E u \in UniformDraws(args.variation_percent) :
                     LET ev == EvApplies(date_v, ev_days, args.ev_hours)
                         x == NewPower(power_v.n, u, ev, args.ev_profile_kw)
                     IN  \E n \in Round3(x) :
                           /\ ws' = [ws EXCEPT ![r] =
                                       WriteMonth(WritePower(row, pidx, n), midx,
                                                  MonthOf(date_v.d))]
                           /\ r' = r + 1
                           /\ hist' = Append(hist, Event("row", r, FALSE, u, ev))
    /\ UNCHANGED <<fs, todo, pc, args, date_col, power_col, month_col,
                   unique_days, ev_days>>

\* wb.save(output_path)
Save ==
    /\ pc = "rows"
    /\ r > Len(ws)
    /\ fs' = [fs EXCEPT ![args.output_path] = ws]
    /\ hist' = Append(hist, Event("save", 0, FALSE, 0, FALSE))
    /\ pc' = "returned"
    /\ UNCHANGED <<todo, args, ws, date_col, power_col, month_col,
                   unique_days, ev_days, r>>

Next == Load \/ ResolveHeaders \/ SampleEvDays \/ TransformRow \/ Save

Spec == Init /\ [][Next]_vars

\* the interpreter runs the one thread until it returns or raises
FairSpec == FewInit /\ [][Next]_vars /\ WF_vars(Next)

DriverSpec == DriverInit /\ [][Next]_vars

----------------------------------------------------------------------------
(* What the claims speak of *)

\* the sheet the running call loaded, and the sheet at its output path
Src == fs[args.input_path]
Out == fs[args.output_path]

HeaderPresent(sheet, name) ==
    \E c \in 1..Len(sheet[HeaderRow]) : strip(str(sheet[HeaderRow][c].v)) = name

RequiredAbsent(sheet) ==
    \E name \in {DATE_HEADER, POWER_HEADER, MONTH_HEADER} : ~HeaderPresent(sheet, name)

GenuineDate(v) == v.k = "datetime"
NumericReading(v) == v.k \in {"int", "float"}

\* a data row of the source with a genuine date and a numeric reading
ValidRow(i) ==
    /\ GenuineDate(Src[i][date_col].v)
    /\ NumericReading(Src[i][power_col].v)

\* the transform loop's record of row i
Processed(i) ==
    \E k \in 1..Len(hist) : hist[k].op = "row" /\ hist[k].row = i /\ ~hist[k].skipped
Skipped(i) ==
    \E k \in 1..Len(hist) : hist[k].op = "row" /\ hist[k].row = i /\ hist[k].skipped
EvInjected(i) ==
    \E k \in 1..Len(hist) : hist[k].op = "row" /\ hist[k].row = i /\ hist[k].ev

MinOf2(a, b) == IF a <= b THEN a ELSE b
MaxOf2(a, b) == IF a <= b THEN b ELSE a

----------------------------------------------------------------------------
\* C1: when one of the three required header names is absent from row 2
\* (exact match after trimming), the call can only be loading or have raised:
\* no day was collected or sampled, no row was visited, the sheet in memory
\* equals the source and nothing was saved at the output path.
C1_MissingHeaderFails ==
    (pc # "start" /\ RequiredAbsent(Src)) =>
        /\ pc \in {"resolve", "raised"}
        /\ ws = Src
        /\ Out = NoFile
        /\ unique_days = {}
        /\ ev_days = <<>>
        /\ \A k \in 1..Len(hist) : hist[k].op \in {"load", "raise"}

\* a call that raised on a sheet with data rows that lacks only "month"
C1_Witness ==
    /\ pc = "raised"
    /\ Len(Src) >= FirstDataRow
    /\ HeaderPresent(Src, DATE_HEADER)
    /\ HeaderPresent(Src, POWER_HEADER)
    /\ ~HeaderPresent(Src, MONTH_HEADER)

\* C2: after a completed call, every data row whose date value is not a
\* date/time or whose power value is not an integer or a floating-point number
\* has its power cell and its month cell, value and format, as in the source.
C2_SkippedRowsUntouched ==
    pc = "returned" =>
        \A i \in DataRows(Src) :
            ~ValidRow(i) =>
                /\ Out[i][power_col] = Src[i][power_col]
                /\ Out[i][month_col] = Src[i][month_col]

\* C3: a processed row's written power is the rounded noised power plus the EV
\* load exactly when the row's date is a sampled EV day and
\* ev_hours[0] <= hour < ev_hours[1], and the rounded noised power alone
\* otherwise (the end hour and the hours outside the window included).
C3_EvLoadIffDayAndWindow ==
    pc \in {"rows", "returned"} =>
        \A k \in 1..Len(hist) :
            (hist[k].op = "row" /\ ~hist[k].skipped) =>
                LET i == hist[k].row
                    dv == Src[i][date_col].v
                    noised == Src[i][power_col].v.n * (FactorOne + hist[k].u)
                    onEvDay == \E j \in 1..Len(ev_days) : ev_days[j] = dv.d
                    inWindow == args.ev_hours[1] <= dv.h /\ dv.h < args.ev_hours[2]
                IN  /\ (onEvDay /\ inWindow) =>
                          ws[i][power_col].v.n
                              \in Round3(noised + args.ev_profile_kw * 100)
                    /\ ~(onEvDay /\ inWindow) =>
                          ws[i][power_col].v.n \in Round3(noised)

\* a completed call with a processed row at the end hour of a sampled EV day
C3_Witness ==
    /\ pc = "returned"
    /\ \E i \in DataRows(Src) :
          /\ Processed(i)
          /\ ~EvInjected(i)
          /\ Src[i][date_col].v.h = args.ev_hours[2]
          /\ \E j \in 1..Len(ev_days) : ev_days[j] = Src[i][date_col].v.d

\* the calendar dates of the data rows with a genuine date/time value
DistinctDays ==
    {Src[i][date_col].v.d : i \in {j \in DataRows(Src) : GenuineDate(Src[j][date_col].v)}}

\* C4: once sampled, ev_days has no duplicates, holds only dates found in data
\* rows with a genuine date/time, and has floor(N / 2) members, N the number of
\* distinct such dates; with N = 0 it is empty and no row gets the EV load.
C4_SampleIsHalfOfDays ==
    pc \in {"rows", "returned"} =>
        LET N == Cardinality(DistinctDays)
        IN  /\ \A a, b \in 1..Len(ev_days) : a # b => ev_days[a] # ev_days[b]
            /\ \A a \in 1..Len(ev_days) : ev_days[a] \in DistinctDays
            /\ 2 * Len(ev_days) <= N
            /\ N < 2 * Len(ev_days) + 2
            /\ N = 0 =>
                  /\ ev_days = <<>>
                  /\ \A i \in DataRows(Src) : ~EvInjected(i)

\* three distinct days, of which one was sampled
C4_Witness ==
    /\ pc = "rows"
    /\ Cardinality(DistinctDays) = 3
    /\ Len(ev_days) = 1

\* C5 as stated: the written power of a valid row lies within
\* [original * (1 - v/100) - ev, original * (1 + v/100) + ev] and is the rounded
\* value of original * factor (+ ev) for a factor in [1 - v/100, 1 + v/100].
C5_Original ==
    pc = "returned" =>
        \A i \in DataRows(Src) :
            ValidRow(i) =>
                LET o == Src[i][power_col].v.n
                    v == args.variation_percent
                    ev == IF EvInjected(i) THEN args.ev_profile_kw * 100 ELSE 0
                    out == Out[i][power_col].v.n * 100
                IN  /\ o * (FactorOne - v) - ev <= out
                    /\ out <= o * (FactorOne + v) + ev
                    /\ \E f \in (FactorOne - v)..(FactorOne + v) :
                          Out[i][power_col].v.n \in Round3(o * f + ev)

\* C5 amended: the written power of a valid row is the rounded value of
\* original * factor (+ ev) for a factor in [1 - v/100, 1 + v/100], hence within
\* 0.0005 of the interval between original * (1 - v/100) and
\* original * (1 + v/100), whichever end is lower, shifted by the EV load added.
C5_RoundedNoisedPower ==
    pc = "returned" =>
        \A i \in DataRows(Src) :
            ValidRow(i) =>
                LET o == Src[i][power_col].v.n
                    v == args.variation_percent
                    ev == IF EvInjected(i) THEN args.ev_profile_kw * 100 ELSE 0
                    a == o * (FactorOne - v)
                    b == o * (FactorOne + v)
                    out == Out[i][power_col].v.n * 100
                IN  /\ MinOf2(a, b) + ev - 500 <= out
                    /\ out <= MaxOf2(a, b) + ev + 500
                    /\ \E f \in (FactorOne - v)..(FactorOne + v) :
                          Out[i][power_col].v.n \in Round3(o * f + ev)

\* a valid row with a positive reading written below original * (1 - v/100)
C5_Witness ==
    /\ pc = "returned"
    /\ \E i \in DataRows(Src) :
          /\ ValidRow(i)
          /\ Src[i][power_col].v.n > 0
          /\ Out[i][power_col].v.n * 100
                < Src[i][power_col].v.n * (FactorOne - args.variation_percent)

\* C6: after a completed call the month cell of every valid row holds the plain
\* integer calendar month of the row's date, whatever it held before.
C6_MonthIsCalendarMonth ==
    pc = "returned" =>
        \A i \in DataRows(Src) :
            ValidRow(i) =>
                /\ Out[i][month_col].v = PyInt(Src[i][date_col].v.d[2])
                /\ Out[i][month_col].v.n \in {m * Unit : m \in 1..12}

\* a valid row whose month cell held another integer, and one that held a formula
C6_Witness ==
    /\ pc = "returned"
    /\ \E i \in DataRows(Src) :
          /\ ValidRow(i)
          /\ Src[i][month_col].v.k = "int"
          /\ Src[i][month_col].v # Out[i][month_col].v
    /\ \E i \in DataRows(Src) : ValidRow(i) /\ IsFormula(Src[i][month_col].v)

C8_OnlyPowerAndMonthWritten ==
    pc = "returned" =>
        /\ Len(Out) = Len(Src)
        /\ \A i \in 1..Len(Src) :
              /\ Len(Out[i]) = Len(Src[i])
              /\ \A c \in 1..Len(Src[i]) :
                    (i < FirstDataRow \/ c \notin {power_col, month_col}) =>
                        Out[i][c] = Src[i][c]

\* a saved sheet in which a power cell and a month cell changed
C8_Witness ==
    /\ pc = "returned"
    /\ \E i \in DataRows(Src) :
          /\ Out[i][power_col] # Src[i][power_col]
          /\ Out[i][month_col] # Src[i][month_col]
          /\ \E c \in 1..Len(Src[i]) : c \notin {date_col, power_col, month_col}

C9_Loaded ==
    pc = "resolve" =>
        /\ ws = fs[SOURCE]
        /\ unique_days = {}
        /\ ev_days = <<>>
        /\ date_col = 0 /\ power_col = 0 /\ month_col = 0

C9_AllSaved ==
    (pc = "returned" /\ todo = <<>>) =>
        Cardinality({f \in FileNames : f # SOURCE /\ fs[f] # NoFile})
            = RangeStop - RangeStart

C9_SaveStep ==
    /\ fs'[SOURCE] = fs[SOURCE]
    /\ (pc = "rows" /\ pc' = "returned") =>
          /\ args.output_path # SOURCE
          /\ fs[args.output_path] = NoFile

ExpectedOps(sheet) ==
    <<"load", "resolve", "sample">> \o
        [j \in 1..(Len(sheet) - HeaderRow) |-> "row"] \o <<"save">>

C10_Order ==
    (pc # "start" /\ ~RequiredAbsent(Src)) =>
        /\ Len(hist) <= Len(ExpectedOps(Src))
        /\ \A k \in 1..Len(hist) :
              /\ hist[k].op = ExpectedOps(Src)[k]
              /\ hist[k].op = "row" =>
                    /\ hist[k].row = k - 1
                    /\ hist[k].skipped =
                          ~(/\ isinstance(Src[k - 1][date_col].v, {"datetime"})
                            /\ isinstance(Src[k - 1][power_col].v, {"int", "float"}))
        /\ \A i \in DataRows(Src) : i > Len(hist) - 1 => ws[i] = Src[i]
        /\ (pc = "returned") = (Len(hist) = Len(ExpectedOps(Src)))
        /\ pc # "returned" => Out = NoFile
        /\ pc # "raised"

\* C10: a call with valid headers loads, resolves the headers, samples the EV
\* days once before any row is changed, visits every data row once in order,
\* each skipped or transformed by its own cells alone, and saves once after the
\* last row; and it terminates.
C10_SequentialRun ==
    [](C10_Order) /\ [](RequiredAbsent(fs[SOURCE]) \/ <>(pc = "returned"))

\* a completed call over three rows, the first skipped and a later one transformed
C10_Witness ==
    /\ pc = "returned"
    /\ Len(Src) = HeaderRow + 3
    /\ Skipped(FirstDataRow)
    /\ Processed(FirstDataRow + 1)

====
